---------------------------- MODULE Spec2Model ----------------------------
(***************************************************************************)
(* A model of street_view_mcp: the Street View fetchers                    *)
(* (street_view.py), the MCP tools built on them (server.py) and the       *)
(* standalone fetch command line (street_view.py, main).                   *)
(*                                                                         *)
(* Python values are represented as follows.                               *)
(*   - None is the empty tuple <<>>, a present value x is <<x>>            *)
(*     (Optional[...] parameters).                                         *)
(*   - Panorama ids are TLA+ strings; only their emptiness (Python        *)
(*     truthiness) and identity matter to the code.                       *)
(*   - A string the code takes apart or builds (a "lat,lng" argument, a   *)
(*     request's location, a file name, a page) is a sequence of          *)
(*     characters or of larger tokens.                                    *)
(*   - A path is <<directory, name>>, relative to the working directory   *)
(*     ("" is the working directory itself).                               *)
(*   - A float is <<num, exp>>, the decimal num * 10^(-exp), normalised    *)
(*     so that num has no trailing zero while exp > 0.                     *)
(***************************************************************************)
EXTENDS Integers, Sequences, FiniteSets, TLC

VARIABLES
    files,      \* the file system: path |-> content, for the files that exist
    dirs,       \* the directories that exist (besides the working directory)
    last,       \* the record of the most recent call: inputs, effects, outcome
    invocations \* the create_html_page invocations running side by side:
                \* caller |-> its position in the handler, arguments, outcome

vars == <<files, dirs, last, invocations>>

-----------------------------------------------------------------------------
(* A local variable: F applied to the value of v, which is computed once *)

Let(v, F(_)) == CHOOSE r \in {F(x) : x \in {v}} : TRUE

-----------------------------------------------------------------------------
(* Optional values and Python truthiness *)

None == <<>>

Some(x) == <<x>>

IsNone(o) == o = None

\* `if s:` for an Optional[str]: None and "" are both falsy
TruthyStr(o) == o # None /\ o[1] # ""

\* `if s:` for an Optional sequence of characters
TruthyChars(o) == o # None /\ o[1] # <<>>

\* `if lat_lng:` for an Optional[Tuple[float, float]]: a 2-tuple is truthy
TruthyPair(o) == o # None

-----------------------------------------------------------------------------
(* Character-level strings: str.split(','), str.strip(), float() *)

Digits == <<"0", "1", "2", "3", "4", "5", "6", "7", "8", "9">>

IsDigit(c) == \E i \in 1..Len(Digits) : Digits[i] = c

DigitVal(c) == (CHOOSE i \in 1..Len(Digits) : Digits[i] = c) - 1

RECURSIVE SplitAcc(_, _, _)
\* s split on sep; cur is the part being read.  Like str.split(sep), the
\* result always has one more part than s has separators.
SplitAcc(s, sep, cur) ==
    IF s = <<>> THEN <<cur>>
    ELSE IF Head(s) = sep THEN <<cur>> \o SplitAcc(Tail(s), sep, <<>>)
    ELSE SplitAcc(Tail(s), sep, Append(cur, Head(s)))

Split(s, sep) == SplitAcc(s, sep, <<>>)

RECURSIVE LStrip(_)
LStrip(s) == IF s # <<>> /\ Head(s) = " " THEN LStrip(Tail(s)) ELSE s

RECURSIVE RStrip(_)
RStrip(s) ==
    IF s # <<>> /\ s[Len(s)] = " " THEN RStrip(SubSeq(s, 1, Len(s) - 1)) ELSE s

Strip(s) == LStrip(RStrip(s))

RECURSIVE DigitsValue(_, _)
\* the integer written by the digit characters of s (a "." is skipped)
DigitsValue(s, acc) ==
    IF s = <<>> THEN acc
    ELSE IF Head(s) = "." THEN DigitsValue(Tail(s), acc)
    ELSE DigitsValue(Tail(s), 10 * acc + DigitVal(Head(s)))

RECURSIVE Normalise(_, _)
Normalise(num, exp) ==
    IF exp > 0 /\ num % 10 = 0 THEN Normalise(num \div 10, exp - 1)
    ELSE <<num, exp>>

\* the sign stripped: <<negative, rest>>
Unsigned(t) ==
    IF t # <<>> /\ Head(t) \in {"+", "-"} THEN <<Head(t) = "-", Tail(t)>>
    ELSE <<FALSE, t>>

\* digits with at most one ".", and at least one digit
IsDecimal(body) ==
    /\ \E i \in 1..Len(body) : IsDigit(body[i])
    /\ \A i \in 1..Len(body) : IsDigit(body[i]) \/ body[i] = "."
    /\ Cardinality({i \in 1..Len(body) : body[i] = "."}) <= 1

\* the number of digits after the "."
FractionLen(body) ==
    IF \E i \in 1..Len(body) : body[i] = "."
    THEN Len(body) - (CHOOSE i \in 1..Len(body) : body[i] = ".")
    ELSE 0

\* Python float(s) on the decimal grammar [ws] [+-] (d+ [. d*] | . d+) [ws]:
\* [ok |-> FALSE, ...] stands for the ValueError float() raises.  (Exponents,
\* "inf"/"nan" and digit-group underscores are outside the inputs drawn.)
ParseFloat(s) ==
    Let(Unsigned(Strip(s)), LAMBDA u :
        IF IsDecimal(u[2])
        THEN [ok |-> TRUE,
              val |-> Normalise(IF u[1] THEN 0 - DigitsValue(u[2], 0)
                                ELSE DigitsValue(u[2], 0),
                                FractionLen(u[2]))]
        ELSE [ok |-> FALSE, val |-> <<0, 0>>])

\* `lat, lng = map(float, s.split(','))`: a ValueError unless there are
\* exactly two parts and float() accepts both
ParseLatLng(s) ==
    Let(Split(s, ","), LAMBDA parts :
        IF Len(parts) # 2 THEN [ok |-> FALSE, val |-> <<<<0, 0>>, <<0, 0>>>>]
        ELSE Let(<<ParseFloat(parts[1]), ParseFloat(parts[2])>>, LAMBDA f :
                 IF f[1].ok /\ f[2].ok
                 THEN [ok |-> TRUE, val |-> <<f[1].val, f[2].val>>]
                 ELSE [ok |-> FALSE, val |-> <<<<0, 0>>, <<0, 0>>>>]))

RECURSIVE NatChars(_)
NatChars(n) ==
    IF n < 10 THEN <<Digits[n + 1]>>
    ELSE Append(NatChars(n \div 10), Digits[(n % 10) + 1])

RECURSIVE Pad(_, _)
\* s left-padded with "0" to n characters
Pad(s, n) == IF Len(s) >= n THEN s ELSE Pad(<<"0">> \o s, n)

\* f"{x}" for a float: the shortest decimal, always with a fractional part
FormatFloat(f) ==
    Let(IF f[1] < 0 THEN 0 - f[1] ELSE f[1], LAMBDA mag :
        (IF f[1] < 0 THEN <<"-">> ELSE <<>>)
            \o NatChars(mag \div (10 ^ f[2])) \o <<".">>
            \o (IF f[2] = 0 THEN <<"0">>
                ELSE Pad(NatChars(mag % (10 ^ f[2])), f[2])))

\* f"{lat_lng[0]},{lat_lng[1]}"
FormatLatLng(p) == FormatFloat(p[1]) \o <<",">> \o FormatFloat(p[2])

-----------------------------------------------------------------------------
(* Outcomes of a call, HTTP responses, and the values drawn as inputs *)

HTTP_OK == 200

DefaultRadius == 50

Return(v) == [kind |-> "return", exc |-> "", msg |-> "", code |-> 0, value |-> v]

Raise(exc, msg, code) ==
    [kind |-> "raise", exc |-> exc, msg |-> msg, code |-> code, value |-> None]

\* what a fetcher did: the requests it sent, in order, and how it ended
Fetched(reqs, outcome) == [requests |-> reqs, outcome |-> outcome]

NoBody == [kind |-> "empty", image |-> "", json |-> <<>>]

ImageBody == [kind |-> "image", image |-> "jpeg-bytes", json |-> <<>>]

GarbageBody == [kind |-> "garbage", image |-> "", json |-> <<>>]

\* a JSON object, as the sequence of its "key": value members
JsonBody ==
    [kind |-> "json", image |-> "",
     json |-> << <<"status", "OK">>, <<"pano_id", "P1">> >>]

JsonErrorBody ==
    [kind |-> "json", image |-> "",
     json |-> << <<"status", "REQUEST_DENIED">> >>]

Response(status, ctype, body) == [status |-> status, ctype |-> ctype, body |-> body]

\* the answer of a call that sent no request
NoResponse == Response(0, None, NoBody)

\* the answers the upstream API may give; a content type is its token sequence
Responses ==
    { Response(HTTP_OK, Some(<<"image", "/", "jpeg">>), ImageBody),
      Response(HTTP_OK, Some(<<"image", "/", "jpeg">>), GarbageBody),
      Response(HTTP_OK, Some(<<"text", "/", "html">>), GarbageBody),
      Response(HTTP_OK, None, ImageBody),
      Response(HTTP_OK, Some(<<"application", "/", "json">>), JsonBody),
      Response(404, Some(<<"image", "/", "jpeg">>), ImageBody),
      Response(403, Some(<<"application", "/", "json">>), JsonErrorBody),
      Response(500, None, GarbageBody) }

Addresses == {<<>>, <<"A">>}

PanoIds == {"", "P1"}

LatLngPairs == { <<<<405, 1>>, <<-739, 1>>>> }

Radii == {DefaultRadius, 10}

Optional(S) == {None} \cup {Some(x) : x \in S}

\* "lat,lng" arguments: empty, well-formed (two spellings), and malformed
LatLngStrings ==
    { <<>>,
      <<"4", "0", ".", "5", ",", "-", "7", "3", ".", "9">>,
      <<" ", "1", ".", ",", "+", ".", "5", "0">>,
      <<"a", "b", "c", ",", "d", "e", "f">>,
      <<"1", ".", "5">>,
      <<"1", ",", "2", ",", "3">> }

-----------------------------------------------------------------------------
(* street_view.py: the fetchers *)

StartsWith(s, prefix) ==
    Len(s) >= Len(prefix) /\ SubSeq(s, 1, Len(prefix)) = prefix

\* response.headers.get('content-type', '')
ContentType(resp) == IF resp.ctype = None THEN <<>> ELSE resp.ctype[1]

\* the dict a JSON object parses to: a later member replaces an earlier one
JsonLoads(members) ==
    [k \in {members[i][1] : i \in 1..Len(members)} |->
        members[CHOOSE i \in 1..Len(members) :
                    /\ members[i][1] = k
                    /\ \A j \in (i + 1)..Len(members) : members[j][1] # k][2]]

\* response.json()
ResponseJson(resp) ==
    IF resp.body.kind = "json"
    THEN Return(JsonLoads(resp.body.json))
    ELSE Raise("JSONDecodeError", "Expecting value", 0)

\* Image.open(BytesIO(response.content))
ImageOpen(resp) ==
    IF resp.body.kind = "image"
    THEN Return([format |-> "PIL", data |-> resp.body.image])
    ELSE Raise("UnidentifiedImageError", "cannot identify image file", 0)

\* sum(1 for m in [location, lat_lng, pano_id] if m is not None)
LocationMethodsMissesPano(location, lat_lng, pano_id) ==
    Cardinality({i \in 1..2 : <<location, lat_lng>>[i] # None})

LocationMethods(location, lat_lng, pano_id) ==
    Cardinality({i \in 1..3 : <<location, lat_lng, pano_id>>[i] # None})

\* the two ValueErrors of the validation; None when it passes
ValidateLocationMethods(n) ==
    IF n = 0
    THEN Some(Raise("ValueError",
                    "Must provide one of: location, lat_lng, or pano_id", 0))
    ELSE IF n > 1
    THEN Some(Raise("ValueError",
                    "Provide only one of: location, lat_lng, or pano_id", 0))
    ELSE None

\* `del params["radius"]`
DelKey(params, key) == [k \in DOMAIN params \ {key} |-> params[k]]

\* the if / elif chain that names the location in the request
SetLocation(params, a) ==
    IF TruthyChars(a.location) THEN ("location" :> a.location[1]) @@ params
    ELSE IF TruthyPair(a.lat_lng)
    THEN ("location" :> FormatLatLng(a.lat_lng[1])) @@ params
    ELSE IF TruthyStr(a.pano_id)
    THEN DelKey(("pano" :> a.pano_id[1]) @@ params, "radius")
    ELSE params

ImageUrl == "https://maps.googleapis.com/maps/api/streetview"

MetadataUrl == "https://maps.googleapis.com/maps/api/streetview/metadata"

ImageDefaults ==
    [location |-> None, lat_lng |-> None, pano_id |-> None, size |-> "600x400",
     heading |-> 0, pitch |-> 0, fov |-> 90, radius |-> DefaultRadius,
     source |-> "default", return_error_code |-> TRUE]

MetadataDefaults ==
    [location |-> None, lat_lng |-> None, pano_id |-> None,
     radius |-> DefaultRadius, source |-> "default"]

ImageParams(a) ==
    SetLocation([size |-> a.size, heading |-> a.heading, pitch |-> a.pitch,
                 fov |-> a.fov, radius |-> a.radius, source |-> a.source,
                 return_error_code |->
                     IF a.return_error_code THEN "true" ELSE "false",
                 key |-> "API_KEY"], a)

MetadataParams(a) ==
    SetLocation([radius |-> a.radius, source |-> a.source, key |-> "API_KEY"], a)

Request(url, params) == [url |-> url, params |-> params]

\* what get_street_view_image makes of the response
ImageResultIgnoresStatus(resp) ==
    IF StartsWith(ContentType(resp), <<"image", "/">>)
    THEN ImageOpen(resp)
    ELSE Raise("Exception", "Received non-image response from API", 0)

ImageResult(resp) ==
    IF resp.status = HTTP_OK
    THEN IF StartsWith(ContentType(resp), <<"image", "/">>)
         THEN ImageOpen(resp)
         ELSE Raise("Exception", "Received non-image response from API", 0)
    ELSE Raise("Exception", "Error fetching Street View image", resp.status)

\* what get_panorama_metadata makes of the response
MetadataResultIgnoresStatus(resp) == ResponseJson(resp)

MetadataResult(resp) ==
    IF resp.status = HTTP_OK
    THEN ResponseJson(resp)
    ELSE Raise("Exception", "Error fetching Street View metadata", resp.status)

UnexpectedKeyword == Raise("TypeError", "got an unexpected keyword argument", 0)

\* the body of get_street_view_image, its parameters bound as a
ImageBodyOf(a, resp) ==
    Let(ValidateLocationMethods(LocationMethods(a.location, a.lat_lng, a.pano_id)),
        LAMBDA invalid :
            IF invalid # None THEN Fetched(<<>>, invalid[1])
            ELSE Fetched(<<Request(ImageUrl, ImageParams(a))>>, ImageResult(resp)))

\* get_street_view_image(**kw), the upstream answering resp if asked
get_street_view_image(kw, resp) ==
    IF ~(DOMAIN kw \subseteq DOMAIN ImageDefaults)
    THEN Fetched(<<>>, UnexpectedKeyword)
    ELSE Let(kw @@ ImageDefaults, LAMBDA a : ImageBodyOf(a, resp))

\* the body of get_panorama_metadata, its parameters bound as a
MetadataBodyOf(a, resp) ==
    Let(ValidateLocationMethods(LocationMethods(a.location, a.lat_lng, a.pano_id)),
        LAMBDA invalid :
            IF invalid # None THEN Fetched(<<>>, invalid[1])
            ELSE Fetched(<<Request(MetadataUrl, MetadataParams(a))>>,
                         MetadataResult(resp)))

\* get_panorama_metadata(**kw), the upstream answering resp if asked
get_panorama_metadata(kw, resp) ==
    IF ~(DOMAIN kw \subseteq DOMAIN MetadataDefaults)
    THEN Fetched(<<>>, UnexpectedKeyword)
    ELSE Let(kw @@ MetadataDefaults, LAMBDA a : MetadataBodyOf(a, resp))

-----------------------------------------------------------------------------
(* The file system, and what a whole call did *)

Path(dir, name) == <<dir, name>>

Exists(fs, path) == path \in DOMAIN fs

\* open(path, 'w') / image.save(path): creates the file or replaces its content
WriteFile(fs, path, content) == (path :> content) @@ fs

\* the bytes image.save writes for a decoded image
Encoded(image) == <<"JPEG", image.data>>

\* the effects and the outcome of one call
Done(reqs, outcome, fs, ds, wrote, opened) ==
    [requests |-> reqs, outcome |-> outcome, files |-> fs, dirs |-> ds,
     wrote |-> wrote, opened |-> opened]

\* os.makedirs(os.path.dirname(output_path), exist_ok=True)
MakeParent(ds, path) == IF path[1] # "" THEN ds \cup {path[1]} ELSE ds

\* save_street_view_image(output_path, **kw): fetch, makedirs, image.save.
\* diskOk says whether the write, if attempted, succeeds.
save_street_view_image(output_path, kw, resp, diskOk, fs, ds) ==
    Let(get_street_view_image(kw, resp), LAMBDA f :
        IF f.outcome.kind = "raise"
        THEN Done(f.requests, f.outcome, fs, ds, {}, <<>>)
        ELSE IF ~diskOk
        THEN Done(f.requests, Raise("OSError", "cannot write file", 0),
                  fs, MakeParent(ds, output_path), {}, <<>>)
        ELSE Done(f.requests, Return(output_path),
                  WriteFile(fs, output_path, Encoded(f.outcome.value)),
                  MakeParent(ds, output_path), {output_path}, <<>>))

-----------------------------------------------------------------------------
(* server.py: the tools *)

OUTPUT_DIR == "output"

HTML_DIR == "html"

InvalidLatLng ==
    Raise("ValueError", "Invalid lat_lng format. Use format: '40.714728,-73.998672'", 0)

\* the tools' "Parse lat_lng string to tuple if provided": the tuple handed
\* on (None when the string is None or empty), or the ValueError
LatLngTuple(lat_lng) ==
    IF TruthyChars(lat_lng)
    THEN Let(ParseLatLng(lat_lng[1]), LAMBDA p :
             IF p.ok THEN Return(Some(p.val)) ELSE InvalidLatLng)
    ELSE Return(None)

\* pil_image.save(buffer, format="JPEG"); Image(data=..., format="jpeg")
ToolImage(image) == [format |-> "jpeg", data |-> Encoded(image)]

\* the keyword arguments get_street_view hands to get_street_view_image
StreetViewKeywords(a, lat_lng_tuple) ==
    [location |-> a.location, lat_lng |-> lat_lng_tuple, pano_id |-> a.pano_id,
     size |-> "600x400", heading |-> 0, pitch |-> 0, fov |-> 90,
     radius |-> a.radius, source |-> "default", return_error_code |-> TRUE,
     filename |-> a.filename]

\* get_street_view(filename, location, lat_lng, pano_id, ..., radius, ...)
get_street_view(a, resp, fs, ds) ==
    Let(LatLngTuple(a.lat_lng), LAMBDA t :
        IF t.kind = "raise" THEN Done(<<>>, t, fs, ds, {}, <<>>)
        ELSE Let(get_street_view_image(StreetViewKeywords(a, t.value), resp),
                 LAMBDA f :
                     IF f.outcome.kind = "raise"
                     THEN Done(f.requests, f.outcome, fs, ds, {}, <<>>)
                     ELSE Done(f.requests, Return(ToolImage(f.outcome.value)),
                               fs, ds, {}, <<>>)))

\* the keyword arguments get_metadata hands to get_panorama_metadata
MetadataKeywords(a, lat_lng_tuple) ==
    [location |-> a.location, lat_lng |-> lat_lng_tuple, pano_id |-> a.pano_id,
     radius |-> a.radius, source |-> "default"]

\* get_metadata(location, lat_lng, pano_id, radius, source)
get_metadata(a, resp, fs, ds) ==
    Let(LatLngTuple(a.lat_lng), LAMBDA t :
        IF t.kind = "raise" THEN Done(<<>>, t, fs, ds, {}, <<>>)
        ELSE Let(get_panorama_metadata(MetadataKeywords(a, t.value), resp),
                 LAMBDA f : Done(f.requests, f.outcome, fs, ds, {}, <<>>)))

\* open_image_locally(filename)
open_image_locally(filename, fs, ds) ==
    IF ~Exists(fs, Path(OUTPUT_DIR, filename))
    THEN Done(<<>>, Raise("ValueError", "does not exist in the output directory", 0),
              fs, ds, {}, <<>>)
    ELSE Done(<<>>, Return([status |-> "success"]), fs, ds, {},
              <<Path(OUTPUT_DIR, filename)>>)

EndsWith(s, suffix) ==
    Len(s) >= Len(suffix) /\ SubSeq(s, Len(s) - Len(suffix) + 1, Len(s)) = suffix

\* `if not filename.endswith('.html'): filename += '.html'`
HtmlName(filename) ==
    IF EndsWith(filename, <<".html">>) THEN filename ELSE filename \o <<".html">>

RECURSIVE JoinLines(_)
\* '\n'.join(html_elements)
JoinLines(elements) ==
    IF elements = <<>> THEN <<>>
    ELSE IF Len(elements) = 1 THEN elements[1]
    ELSE elements[1] \o <<"\n">> \o JoinLines(Tail(elements))

\* html_template.format(title=title, content=content)
HtmlDocument(title, content) ==
    <<"<!DOCTYPE html><html><head><title>">> \o title
        \o <<"</title><style>...</style></head><body>", "\n">>
        \o content \o <<"\n", "</body></html>", "\n">>

\* create_html_page(html_elements, filename, title)
create_html_page_Overwrites(html_elements, filename, title, fs, ds) ==
    LET file_path == Path(HTML_DIR, HtmlName(filename))
    IN  Done(<<>>, Return([status |-> "success"]),
             WriteFile(fs, file_path,
                       HtmlDocument(title, JoinLines(html_elements))),
             ds \cup {HTML_DIR}, {file_path}, <<file_path>>)

create_html_page(html_elements, filename, title, fs, ds) ==
    LET file_path == Path(HTML_DIR, HtmlName(filename))
    IN  IF Exists(fs, file_path)
        THEN Done(<<>>, Raise("ValueError", "File already exists", 0),
                  fs, ds, {}, <<>>)
        ELSE Done(<<>>, Return([status |-> "success"]),
                  WriteFile(fs, file_path,
                            HtmlDocument(title, JoinLines(html_elements))),
                  ds \cup {HTML_DIR}, {file_path}, <<file_path>>)

-----------------------------------------------------------------------------
(* street_view.py: the command line, main() *)

\* how a run of the command line ended
Exit(code, stderr, d) == [exit |-> code, stderr |-> stderr, done |-> d]

\* parser.error(message): the usage on standard error, then sys.exit(2)
UsageError(message, fs, ds) ==
    Exit(2, <<message>>,
         Done(<<>>, Raise("SystemExit", message, 2), fs, ds, {}, <<>>))

\* the flags of the required, mutually exclusive group that were given
GivenLocationFlags(args) ==
    {n \in {"address", "latlong", "pano"} : args[n] # None}

\* parser.parse_args(): None when the arguments are accepted, else the usage
\* error argparse prints before it exits the process with status 2
ParseArgs(args) ==
    IF Cardinality(GivenLocationFlags(args)) = 0
    THEN Some("usage: one of the arguments --address --latlong/--latlng --pano is required")
    ELSE IF Cardinality(GivenLocationFlags(args)) > 1
    THEN Some("usage: argument not allowed with argument")
    ELSE None

\* the `try:` block's "Parse latitude,longitude if provided"
CliLatLng(latlong) ==
    IF TruthyChars(latlong)
    THEN Let(ParseLatLng(latlong[1]), LAMBDA p :
             IF p.ok THEN Return(Some(p.val))
             ELSE Raise("ValueError",
                        "Invalid latitude,longitude format. Use format: 40.714728,-73.998672", 0))
    ELSE Return(None)

\* `except Exception as e: print(f"Error: {e}", file=sys.stderr); return 1`
CaughtFallsThrough(outcome, d) == Exit(0, <<"Error: ", outcome.msg>>, d)

Caught(outcome, d) == Exit(1, <<"Error: ", outcome.msg>>, d)

\* the keyword arguments main hands to get_panorama_metadata
CliMetadataKeywords(args, t) ==
    [location |-> args.address, lat_lng |-> t, pano_id |-> args.pano,
     radius |-> args.radius, source |-> "default"]

\* the keyword arguments main hands to save_street_view_image
CliImageKeywords(args, t) ==
    [location |-> args.address, lat_lng |-> t, pano_id |-> args.pano,
     size |-> "600x400", heading |-> 0, pitch |-> 0, fov |-> 90,
     radius |-> args.radius, source |-> "default"]

\* the image branch: mkdir of the output's parent, fetch and save, --open
MainImage(args, t, resp, diskOk, fs, ds) ==
    Let(save_street_view_image(args.output, CliImageKeywords(args, t), resp,
                               diskOk, fs, MakeParent(ds, args.output)),
        LAMBDA g :
            IF g.outcome.kind = "raise" THEN Caught(g.outcome, g)
            ELSE Exit(0, <<>>,
                      [g EXCEPT !.opened =
                          IF args.open THEN <<args.output>> ELSE <<>>]))

\* the --metadata branch
MainMetadataFallsThrough(args, t, resp, diskOk, fs, ds) ==
    Let(get_panorama_metadata(CliMetadataKeywords(args, t), resp), LAMBDA f :
        IF f.outcome.kind = "raise"
        THEN Caught(f.outcome, Done(f.requests, f.outcome, fs, ds, {}, <<>>))
        ELSE Let(MainImage(args, t, resp, diskOk, fs, ds), LAMBDA r :
                 [r EXCEPT !.done.requests = f.requests \o @]))

MainMetadata(args, t, resp, diskOk, fs, ds) ==
    Let(get_panorama_metadata(CliMetadataKeywords(args, t), resp), LAMBDA f :
        IF f.outcome.kind = "raise"
        THEN Caught(f.outcome, Done(f.requests, f.outcome, fs, ds, {}, <<>>))
        ELSE Exit(0, <<>>, Done(f.requests, f.outcome, fs, ds, {}, <<>>)))

\* main(): exit status, standard error, and the effects of the run
main(args, resp, diskOk, fs, ds) ==
    Let(ParseArgs(args), LAMBDA usage :
        IF usage # None THEN UsageError(usage[1], fs, ds)
        ELSE Let(CliLatLng(args.latlong), LAMBDA t :
                 IF t.kind = "raise"
                 THEN Caught(t, Done(<<>>, t, fs, ds, {}, <<>>))
                 ELSE IF args.metadata
                 THEN MainMetadata(args, t.value, resp, diskOk, fs, ds)
                 ELSE MainImage(args, t.value, resp, diskOk, fs, ds)))

-----------------------------------------------------------------------------
(* server.py: create_html_page statement by statement, for invocations that *)
(* run side by side (server processes started in the same working          *)
(* directory, or a host that dispatches tool calls to threads): nothing in *)
(* the handler locks the file or the directory.                            *)

\* the callers whose invocations may overlap
Callers == {"c1", "c2"}

\* open(file_path, 'w'): the file is created, or truncated when it exists
OpenForWriting(fs, path) == WriteFile(fs, path, <<>>)

\* what a file holding old holds after text is written from its start, by a
\* writer that opened it with 'w' and so writes at offset 0: text, then
\* whatever of old lies beyond the end of text (a position of the sequence
\* stands for an offset in the file)
Overlay(old, text) ==
    IF Len(old) > Len(text) THEN text \o SubSeq(old, Len(text) + 1, Len(old))
    ELSE text

\* f.write(html_content), flushed when the with block closes the file
WriteAtStart(fs, path, text) ==
    WriteFile(fs, path, Overlay(IF Exists(fs, path) THEN fs[path] ELSE <<>>, text))

\* an invocation: where it stands in the handler (pc), its arguments, its
\* outcome, and which other invocations had returned when it was invoked
\* (returnedBefore), had written when it opened the file (writtenAtOpen) and
\* had written when it wrote (writtenBefore)
NotInvoked ==
    [pc |-> "idle", html_elements |-> <<>>, filename |-> <<>>, title |-> <<>>,
     outcome |-> Return(None), returnedBefore |-> {}, writtenAtOpen |-> {},
     writtenBefore |-> {}]

\* file_path = HTML_DIR / filename, with the suffix added
PagePath(inv) == Path(HTML_DIR, HtmlName(inv.filename))

\* html_content of the invocation
PageDocument(inv) == HtmlDocument(inv.title, JoinLines(inv.html_elements))

\* the callers whose invocation has reached one of the positions pcs
CallersAt(pcs) == {c \in Callers : invocations[c].pc \in pcs}

\* the callers whose invocation has written its page and returned
CallersWritten ==
    {c \in CallersAt({"done"}) : invocations[c].outcome.kind = "return"}

\* if file_path.exists(): raise ValueError(...)
AfterExistsCheckSkipped(inv, fs) == [inv EXCEPT !.pc = "mkdir"]

AfterExistsCheck(inv, fs) ==
    IF Exists(fs, PagePath(inv))
    THEN [inv EXCEPT !.pc = "done",
                     !.outcome = Raise("ValueError", "File already exists", 0)]
    ELSE [inv EXCEPT !.pc = "mkdir"]

-----------------------------------------------------------------------------
(* The state machine: one action per entry point, each a whole call *)

MaxElements == 2

Fragments == {<<"<h1>A</h1>">>, <<"<p>B</p>">>}

\* the fragment lists of at most MaxElements elements
ElementLists == UNION {[1..n -> Fragments] : n \in 0..MaxElements}

HtmlNames == {<<"tour">>, <<"tour", ".html">>}

Titles == {<<"Street View Tour">>}

OutputNames == {<<"a.jpg">>, <<"b.jpg">>}

OutputPaths == {Path("", <<"street_view.jpg">>), Path(OUTPUT_DIR, <<"a.jpg">>)}

\* the upstream answers only a call that sends a request
Answers(reqs) == IF Len(reqs) = 0 THEN {NoResponse} ELSE Responses

\* the disk decides only a write that is attempted
DiskResults(wrote) == IF wrote = {} THEN {TRUE} ELSE BOOLEAN

\* the record of a call: what it was given, what it did, how it ended
Called(op, args, resp, d, exit, stderr) ==
    [op |-> op, args |-> args,
     response |-> IF Len(d.requests) = 0 THEN None ELSE Some(resp),
     requests |-> d.requests, outcome |-> d.outcome,
     wrote |-> d.wrote, opened |-> d.opened, before |-> files,
     exit |-> exit, stderr |-> stderr]

\* no call has been made, or the caller has collected the last outcome
NoCall ==
    [op |-> "none", args |-> <<>>, response |-> None, requests |-> <<>>,
     outcome |-> Return(None), wrote |-> {}, opened |-> <<>>, before |-> <<>>,
     exit |-> -1, stderr |-> <<>>]

\* calls are served one at a time (synchronous, blocking handlers): the next
\* call starts once the outcome of the previous one has been collected
Idle == last.op = "none"

Init ==
    /\ files = <<>>
    /\ dirs = {}
    /\ last = NoCall
    /\ invocations = [c \in Callers |-> NotInvoked]

\* a direct call of get_street_view_image
FetchImageCall ==
    /\ Idle
    /\ UNCHANGED invocations
    /\ \E location \in Optional(Addresses), lat_lng \in Optional(LatLngPairs),
       pano_id \in Optional(PanoIds), radius \in Radii :
        \E kw \in {[location |-> location, lat_lng |-> lat_lng,
                    pano_id |-> pano_id, radius |-> radius]} :
            \E resp \in Answers(get_street_view_image(kw, NoResponse).requests) :
                \E f \in {get_street_view_image(kw, resp)} :
                    /\ last' = Called("get_street_view_image", kw, resp,
                                      Done(f.requests, f.outcome, files, dirs, {}, <<>>),
                                      -1, <<>>)
                    /\ UNCHANGED <<files, dirs>>

\* a direct call of get_panorama_metadata
FetchMetadataCall ==
    /\ Idle
    /\ UNCHANGED invocations
    /\ \E location \in Optional(Addresses), lat_lng \in Optional(LatLngPairs),
       pano_id \in Optional(PanoIds), radius \in Radii :
        \E kw \in {[location |-> location, lat_lng |-> lat_lng,
                    pano_id |-> pano_id, radius |-> radius]} :
            \E resp \in Answers(get_panorama_metadata(kw, NoResponse).requests) :
                \E f \in {get_panorama_metadata(kw, resp)} :
                    /\ last' = Called("get_panorama_metadata", kw, resp,
                                      Done(f.requests, f.outcome, files, dirs, {}, <<>>),
                                      -1, <<>>)
                    /\ UNCHANGED <<files, dirs>>

\* a call of the get_street_view tool
GetStreetViewCall ==
    /\ Idle
    /\ UNCHANGED invocations
    /\ \E filename \in OutputNames, location \in Optional(Addresses),
       lat_lng \in Optional(LatLngStrings), pano_id \in Optional(PanoIds),
       radius \in Radii :
        \E a \in {[filename |-> filename, location |-> location,
                   lat_lng |-> lat_lng, pano_id |-> pano_id, radius |-> radius]} :
            \E resp \in Answers(get_street_view(a, NoResponse, files, dirs).requests) :
                \E d \in {get_street_view(a, resp, files, dirs)} :
                    /\ last' = Called("get_street_view", a, resp, d, -1, <<>>)
                    /\ files' = d.files
                    /\ dirs' = d.dirs

\* a call of the get_metadata tool
GetMetadataCall ==
    /\ Idle
    /\ UNCHANGED invocations
    /\ \E location \in Optional(Addresses), lat_lng \in Optional(LatLngStrings),
       pano_id \in Optional(PanoIds), radius \in Radii :
        \E a \in {[location |-> location, lat_lng |-> lat_lng,
                   pano_id |-> pano_id, radius |-> radius]} :
            \E resp \in Answers(get_metadata(a, NoResponse, files, dirs).requests) :
                \E d \in {get_metadata(a, resp, files, dirs)} :
                    /\ last' = Called("get_metadata", a, resp, d, -1, <<>>)
                    /\ files' = d.files
                    /\ dirs' = d.dirs

\* a call of the open_image_locally tool
OpenImageLocallyCall ==
    /\ Idle
    /\ UNCHANGED invocations
    /\ \E filename \in OutputNames :
        \E d \in {open_image_locally(filename, files, dirs)} :
            /\ last' = Called("open_image_locally", [filename |-> filename],
                              NoResponse, d, -1, <<>>)
            /\ files' = d.files
            /\ dirs' = d.dirs

\* a run of the command line
MainRun ==
    /\ Idle
    /\ UNCHANGED invocations
    /\ \E address \in Optional(Addresses), latlong \in Optional(LatLngStrings),
       pano \in Optional(PanoIds), metadata \in BOOLEAN :
      \E open \in IF metadata THEN {FALSE} ELSE BOOLEAN,
         output \in IF metadata THEN {Path("", <<"street_view.jpg">>)}
                    ELSE OutputPaths :
        \E args \in {[address |-> address, latlong |-> latlong, pano |-> pano,
                      output |-> output, radius |-> DefaultRadius,
                      metadata |-> metadata, open |-> open]} :
            \E resp \in Answers(main(args, NoResponse, TRUE, files, dirs).done.requests) :
              \E diskOk \in DiskResults(main(args, resp, TRUE, files, dirs).done.wrote) :
                \E r \in {main(args, resp, diskOk, files, dirs)} :
                    /\ last' = Called("main", [diskOk |-> diskOk] @@ args,
                                      resp, r.done, r.exit, r.stderr)
                    /\ files' = r.done.files
                    /\ dirs' = r.done.dirs

\* a call of the create_html_page tool
CreateHtmlPageCall ==
    /\ Idle
    /\ UNCHANGED invocations
    /\ \E html_elements \in ElementLists, filename \in HtmlNames, title \in Titles :
        \E d \in {create_html_page(html_elements, filename, title, files, dirs)} :
            /\ last' = Called("create_html_page",
                              [html_elements |-> html_elements,
                               filename |-> filename, title |-> title],
                              NoResponse, d, -1, <<>>)
            /\ files' = d.files
            /\ dirs' = d.dirs

\* the caller takes the outcome of the finished call
Collect ==
    /\ ~Idle
    /\ UNCHANGED invocations
    /\ last' = NoCall
    /\ UNCHANGED <<files, dirs>>

Next ==
    \/ FetchImageCall
    \/ FetchMetadataCall
    \/ GetStreetViewCall
    \/ GetMetadataCall
    \/ OpenImageLocallyCall
    \/ MainRun
    \/ CreateHtmlPageCall
    \/ Collect

Spec == Init /\ [][Next]_vars

\* the page names given by overlapping callers: two that name the same file,
\* and another
PageNames == HtmlNames \cup {<<"map">>}

\* a caller invokes create_html_page
Invoke(c) ==
    /\ invocations[c].pc = "idle"
    /\ \E html_elements \in ElementLists, filename \in PageNames, title \in Titles :
        invocations' =
            [invocations EXCEPT ![c] =
                [NotInvoked EXCEPT !.pc = "exists",
                                   !.html_elements = html_elements,
                                   !.filename = filename,
                                   !.title = title,
                                   !.returnedBefore = CallersAt({"done"})]]
    /\ UNCHANGED <<files, dirs, last>>

\* its existence check
CheckExists(c) ==
    /\ invocations[c].pc = "exists"
    /\ invocations' =
           [invocations EXCEPT ![c] = AfterExistsCheck(invocations[c], files)]
    /\ UNCHANGED <<files, dirs, last>>

\* HTML_DIR.mkdir(parents=True, exist_ok=True)
MakeHtmlDir(c) ==
    /\ invocations[c].pc = "mkdir"
    /\ dirs' = dirs \cup {HTML_DIR}
    /\ invocations' = [invocations EXCEPT ![c].pc = "open"]
    /\ UNCHANGED <<files, last>>

\* with open(file_path, 'w') as f
OpenPage(c) ==
    /\ invocations[c].pc = "open"
    /\ files' = OpenForWriting(files, PagePath(invocations[c]))
    /\ invocations' =
           [invocations EXCEPT ![c].pc = "write",
                               ![c].writtenAtOpen = CallersWritten]
    /\ UNCHANGED <<dirs, last>>

\* f.write(html_content) and the close of the file; the browser is opened and
\* the success message returned
WritePage(c) ==
    /\ invocations[c].pc = "write"
    /\ files' = WriteAtStart(files, PagePath(invocations[c]),
                             PageDocument(invocations[c]))
    /\ invocations' =
           [invocations EXCEPT ![c].pc = "done",
                               ![c].outcome = Return([status |-> "success"]),
                               ![c].writtenBefore = CallersWritten]
    /\ UNCHANGED <<dirs, last>>

ConcurrentNext ==
    \E c \in Callers :
        \/ Invoke(c)
        \/ CheckExists(c)
        \/ MakeHtmlDir(c)
        \/ OpenPage(c)
        \/ WritePage(c)

\* create_html_page invoked by callers that do not wait for one another
ConcurrentSpec == Init /\ [][ConcurrentNext]_vars

-----------------------------------------------------------------------------
(* The error kinds of the specification, as the code raises them *)

LocationMessages ==
    {"Must provide one of: location, lat_lng, or pano_id",
     "Provide only one of: location, lat_lng, or pano_id"}

FormatMessages ==
    {"Invalid lat_lng format. Use format: '40.714728,-73.998672'",
     "Invalid latitude,longitude format. Use format: 40.714728,-73.998672"}

Raised(o) == o.kind = "raise"

Returned(o) == o.kind = "return"

IsInvalidInput(o) ==
    Raised(o) /\ o.exc = "ValueError" /\ o.msg \in LocationMessages \cup FormatMessages

IsUpstreamFormatError(o) ==
    Raised(o) /\ o.exc = "Exception" /\ o.msg = "Received non-image response from API"

IsUpstreamHttpError(o, status) ==
    /\ Raised(o) /\ o.exc = "Exception" /\ o.code = status
    /\ o.msg \in {"Error fetching Street View image",
                  "Error fetching Street View metadata"}

IsAlreadyExists(o) ==
    Raised(o) /\ o.exc \in {"ValueError", "FileExistsError"} /\ o.msg = "File already exists"

Fetchers == {"get_street_view_image", "get_panorama_metadata"}

\* how many of location, lat_lng, pano_id the call was given (are not None)
Populated(args) ==
    Cardinality({k \in {"location", "lat_lng", "pano_id"} : args[k] # None})

SentRequest == Len(last.requests) > 0

IsImageType(resp) ==
    resp.ctype # None /\ Len(resp.ctype[1]) >= 2
        /\ resp.ctype[1][1] = "image" /\ resp.ctype[1][2] = "/"

-----------------------------------------------------------------------------
(* C1 *)

\* C1: a call of get_street_view_image or get_panorama_metadata in which zero,
\* or more than one, of location, lat_lng, pano_id is populated fails with a
\* ValueError (InvalidInput), and no HTTP request has been issued.
C1_InvalidCountFailsBeforeRequest ==
    (last.op \in Fetchers /\ Populated(last.args) # 1)
        => (IsInvalidInput(last.outcome) /\ last.requests = <<>>)

\* a fetcher was given two specifiers and raised the ValueError
C1_Witness ==
    /\ last.op \in Fetchers
    /\ Populated(last.args) = 2
    /\ IsInvalidInput(last.outcome)

-----------------------------------------------------------------------------
(* C2 *)

\* the get_street_view call named exactly one location, in a form the tool accepts
OneGoodLocation ==
    /\ Populated(last.args) = 1
    /\ last.args.location # None => last.args.location[1] # <<>>
    /\ last.args.pano_id # None => last.args.pano_id[1] # ""
    /\ last.args.lat_lng # None => ParseLatLng(last.args.lat_lng[1]).ok

TargetOfLast == Path(OUTPUT_DIR, last.args.filename)

\* C2: a get_street_view call whose filename already exists in the output
\* directory fails with AlreadyExistsError and writes nothing: the file system
\* is as it was before the call.  (Stated for calls whose location arguments
\* are themselves acceptable.)
C2_ExistingFilenameRejected ==
    (/\ last.op = "get_street_view"
     /\ OneGoodLocation
     /\ TargetOfLast \in DOMAIN last.before)
        => (IsAlreadyExists(last.outcome) /\ files = last.before)

-----------------------------------------------------------------------------
(* C3 *)

\* C3: a get_street_view call with exactly one location specifier and a
\* filename not yet in the output directory sends its request, and when the
\* upstream answers 200 with an image it returns the image and the file then
\* exists under output/, the directory having been created.
C3_FreshFilenameSaved ==
    (/\ last.op = "get_street_view"
     /\ OneGoodLocation
     /\ TargetOfLast \notin DOMAIN last.before)
        => /\ Len(last.requests) = 1
           /\ (/\ last.response[1].status = HTTP_OK
               /\ IsImageType(last.response[1])
               /\ last.response[1].body.kind = "image")
                  => /\ Returned(last.outcome)
                     /\ TargetOfLast \in DOMAIN files
                     /\ OUTPUT_DIR \in dirs

-----------------------------------------------------------------------------
(* C4 *)

\* C4 as stated: once get_street_view_image has sent its request, the outcome
\* follows from the status and the content type alone: 200 with an image type
\* returns the decoded image, 200 with any other or no type is an
\* UpstreamFormatError, any other status an UpstreamHttpError with that status.
C4_StatusAndTypeDecide ==
    (last.op = "get_street_view_image" /\ SentRequest)
        => LET r == last.response[1]
           IN  /\ (r.status = HTTP_OK /\ IsImageType(r)) => Returned(last.outcome)
               /\ (r.status = HTTP_OK /\ ~IsImageType(r))
                      => IsUpstreamFormatError(last.outcome)
               /\ r.status # HTTP_OK => IsUpstreamHttpError(last.outcome, r.status)

\* C4, amended: the same, except that 200 with an image type returns the
\* decoded image only when the body decodes as an image (the image then holds
\* the body's data); when it does not, the call fails with the decoder's
\* error, which is neither of the two upstream errors.
C4_StatusTypeAndBodyDecide ==
    (last.op = "get_street_view_image" /\ SentRequest)
        => LET r == last.response[1]
           IN  /\ (r.status = HTTP_OK /\ IsImageType(r) /\ r.body.kind = "image")
                      => /\ Returned(last.outcome)
                         /\ last.outcome.value.data = r.body.image
               /\ (r.status = HTTP_OK /\ IsImageType(r) /\ r.body.kind # "image")
                      => /\ Raised(last.outcome)
                         /\ last.outcome.exc = "UnidentifiedImageError"
               /\ (r.status = HTTP_OK /\ ~IsImageType(r))
                      => IsUpstreamFormatError(last.outcome)
               /\ r.status # HTTP_OK => IsUpstreamHttpError(last.outcome, r.status)

\* the fetcher decoded the image of a 200 image response
C4_Witness ==
    /\ last.op = "get_street_view_image"
    /\ SentRequest
    /\ last.response[1].status = HTTP_OK
    /\ IsImageType(last.response[1])
    /\ Returned(last.outcome)

-----------------------------------------------------------------------------
(* C5 *)

\* the value of key k in the JSON object whose members are ms, read from the
\* text: the value of the last member named k
MemberValue(ms, k) ==
    ms[CHOOSE i \in 1..Len(ms) :
           ms[i][1] = k /\ \A j \in 1..Len(ms) : ms[j][1] = k => j <= i][2]

-----------------------------------------------------------------------------
(* C6 *)

\* C6: a fetcher call that names a panorama id sends a request without a
\* radius parameter; a call that names an address or coordinates sends the
\* caller's radius.
C6_RadiusOnlyWithoutPano ==
    (last.op \in Fetchers /\ SentRequest)
        => LET params == last.requests[1].params
           IN  IF last.args.pano_id # None
               THEN "radius" \notin DOMAIN params
               ELSE "radius" \in DOMAIN params /\ params["radius"] = last.args.radius

-----------------------------------------------------------------------------
(* C7 *)

Tools == {"get_street_view", "get_metadata"}

\* C7: a lat_lng string given to get_street_view or get_metadata either parses
\* as two floats, and then a request that is sent carries them as its
\* location, or the call fails with InvalidInput without a request.
C7_LatLngParsedOrRejected ==
    (last.op \in Tools /\ last.args.lat_lng # None)
        => LET p == ParseLatLng(last.args.lat_lng[1])
           IN  IF p.ok
               THEN \/ IsInvalidInput(last.outcome) /\ ~SentRequest
                    \/ /\ SentRequest
                       /\ "location" \in DOMAIN last.requests[1].params
                       /\ last.requests[1].params["location"] = FormatLatLng(p.val)
               ELSE IsInvalidInput(last.outcome) /\ ~SentRequest

\* C7 for the get_metadata calls that also name an address (get_street_view
\* never reaches its fetch): the lat_lng string given with it is not ignored.
C7_MetadataLatLngParsedOrRejected ==
    (last.op = "get_metadata" /\ TruthyChars(last.args.location))
        => C7_LatLngParsedOrRejected

-----------------------------------------------------------------------------
(* C8 *)

\* filename with ".html" appended when it does not end with it
WithHtmlSuffix(filename) ==
    IF Len(filename) > 0 /\ filename[Len(filename)] = ".html" THEN filename
    ELSE Append(filename, ".html")

RECURSIVE ContainsInOrder(_, _, _)
\* the fragments occur in content one after the other, from position start on
ContainsInOrder(content, fragments, start) ==
    IF fragments = <<>> THEN TRUE
    ELSE \E p \in start..(Len(content) - Len(fragments[1]) + 1) :
            /\ SubSeq(content, p, p + Len(fragments[1]) - 1) = fragments[1]
            /\ ContainsInOrder(content, Tail(fragments), p + Len(fragments[1]))

PageOfLast == Path(HTML_DIR, WithHtmlSuffix(last.args.filename))

\* C8: create_html_page writes the file named filename, with ".html" appended
\* when absent, and its content holds every fragment in the order given; a call
\* whose file already exists fails with AlreadyExistsError, leaves the file
\* system as it was and opens no browser.
C8_PageWrittenOnce ==
    last.op = "create_html_page"
        => IF PageOfLast \in DOMAIN last.before
           THEN /\ IsAlreadyExists(last.outcome)
                /\ files = last.before
                /\ last.opened = <<>>
           ELSE /\ Returned(last.outcome)
                /\ DOMAIN files = DOMAIN last.before \cup {PageOfLast}
                /\ \A q \in DOMAIN last.before : files[q] = last.before[q]
                /\ ContainsInOrder(files[PageOfLast], last.args.html_elements, 1)
                /\ last.opened = <<PageOfLast>>

\* a second call for an existing page, asking for other fragments, was refused
C8_Witness ==
    /\ last.op = "create_html_page"
    /\ PageOfLast \in DOMAIN last.before
    /\ Len(last.args.html_elements) = 2
    /\ ~ContainsInOrder(last.before[PageOfLast], last.args.html_elements, 1)
    /\ IsAlreadyExists(last.outcome)

-----------------------------------------------------------------------------
(* C9 *)

\* the run fetched what it was asked for: the metadata was returned and
\* printed, or the image was fetched and saved to the output path
FetchSucceeded ==
    /\ Len(last.requests) = 1
    /\ Returned(last.outcome)
    /\ ~last.args.metadata => /\ last.args.output \in DOMAIN files
                              /\ last.args.output \in last.wrote

\* C9 as stated: the command line exits with 0 exactly when the fetch
\* succeeded, and with 1, a message on standard error, on every error,
\* missing or conflicting location flags included.
C9_ExitZeroOrOne ==
    last.op = "main"
        => /\ last.exit = 0 <=> FetchSucceeded
           /\ ~FetchSucceeded => last.exit = 1 /\ last.stderr # <<>>

\* the location flags given on the command line
FlagsGiven ==
    Cardinality({k \in {"address", "latlong", "pano"} : last.args[k] # None})

\* C9, amended: with exactly one location flag given, the exit code is 0
\* exactly when the fetch succeeded and otherwise 1, with the error's message
\* on standard error; with no or several location flags the argument parser
\* ends the run with exit code 2 and its usage message on standard error,
\* before anything is fetched or written.
C9_ExitCodes ==
    last.op = "main"
        => IF FlagsGiven = 1
           THEN /\ last.exit = 0 <=> FetchSucceeded
                /\ ~FetchSucceeded
                       => /\ last.exit = 1
                          /\ Raised(last.outcome)
                          /\ last.stderr = <<"Error: ", last.outcome.msg>>
           ELSE /\ last.exit = 2
                /\ last.stderr # <<>>
                /\ last.requests = <<>>
                /\ files = last.before

\* a run whose image fetch was answered but whose file could not be written
\* ended with exit code 1
C9_Witness ==
    /\ last.op = "main"
    /\ FlagsGiven = 1
    /\ Len(last.requests) = 1
    /\ last.outcome.exc = "OSError"
    /\ last.exit = 1

-----------------------------------------------------------------------------
(* C10 *)

\* C10: every call and every run of the command line sends at most one HTTP
\* request; one that fails input validation sends none.
C10_AtMostOneRequest ==
    last.op # "none"
        => /\ Len(last.requests) <= 1
           /\ IsInvalidInput(last.outcome) => last.requests = <<>>

\* a run of the command line got a failed answer and sent nothing after it
C10_Witness ==
    /\ last.op = "main"
    /\ Len(last.requests) = 1
    /\ last.response[1].status # HTTP_OK
    /\ last.exit = 1

-----------------------------------------------------------------------------
(* C11 *)

\* the entry points that send the fetchers' requests on the tool and library
\* surfaces
RequestSenders == Fetchers \cup Tools

\* the parameters of request r that identify a place
LocationKeys(r) == DOMAIN r.params \cap {"location", "pano"}

\* C11: every request sent by a fetcher, called directly or through
\* get_street_view or get_metadata, carries exactly one of the parameters
\* location and pano, whatever the arguments were, empty strings included.
C11_RequestNamesOneLocation ==
    last.op \in RequestSenders
        => \A i \in 1..Len(last.requests) :
               Cardinality(LocationKeys(last.requests[i])) = 1

-----------------------------------------------------------------------------
(* C12 *)

\* the invocation of caller c has returned its success message
Succeeded(c) ==
    invocations[c].pc = "done" /\ Returned(invocations[c].outcome)

\* callers c and d named the same file
SamePage(c, d) == PagePath(invocations[c]) = PagePath(invocations[d])

\* one of the two invocations had returned before the other was invoked
NotInterleaved(c, d) ==
    \/ c \in invocations[d].returnedBefore
    \/ d \in invocations[c].returnedBefore

\* two finished invocations of different callers for the same file
FinishedPair(c, d) ==
    /\ c # d
    /\ invocations[c].pc = "done"
    /\ invocations[d].pc = "done"
    /\ SamePage(c, d)

\* C12 as stated: of two invocations for the same file that do not
\* interleave at most one succeeds; and when both succeed, the file holds the
\* content of the one that wrote later.
C12_LaterWriteReplaces ==
    \A c, d \in Callers :
        FinishedPair(c, d)
            => /\ NotInterleaved(c, d) => ~(Succeeded(c) /\ Succeeded(d))
               /\ (Succeeded(c) /\ Succeeded(d) /\ c \in invocations[d].writtenBefore)
                      => files[PagePath(invocations[d])] = PageDocument(invocations[d])

\* C12, amended: of two invocations for the same file that do not interleave
\* at most one succeeds; when both succeed, the file holds the later writer's
\* content if that writer opened the file after the earlier one had written,
\* and otherwise the later content written over the earlier one: the later
\* content followed by what the earlier content has beyond its length.
C12_LaterWriteOverlays ==
    \A c, d \in Callers :
        FinishedPair(c, d)
            => /\ NotInterleaved(c, d) => ~(Succeeded(c) /\ Succeeded(d))
               /\ (Succeeded(c) /\ Succeeded(d) /\ c \in invocations[d].writtenBefore)
                      => files[PagePath(invocations[d])]
                             = IF c \in invocations[d].writtenAtOpen
                               THEN PageDocument(invocations[d])
                               ELSE Overlay(PageDocument(invocations[c]),
                                            PageDocument(invocations[d]))

\* both invocations for one file passed the check and returned success, and
\* the later writer's content has replaced the different content of the
\* earlier one
C12_Witness ==
    \E c, d \in Callers :
        /\ FinishedPair(c, d)
        /\ Succeeded(c) /\ Succeeded(d)
        /\ c \in invocations[d].writtenBefore
        /\ PageDocument(invocations[c]) # PageDocument(invocations[d])
        /\ files[PagePath(invocations[d])] = PageDocument(invocations[d])

=============================================================================
